---------------------------- MODULE Spec2Model ----------------------------
(***************************************************************************)
(* A model of phigaro's command-line driver, src/phigaro/cli/batch.py:     *)
(* the substitution resolver (parse_substitute_output), the task factory   *)
(* (create_task), the scratch-directory sweep (clean_fold) and main().     *)
(*                                                                         *)
(* Strings are sequences of tokens; ":" and "/" are tokens of their own,   *)
(* so that str.split(":") and os.path.dirname are computed, not assumed.   *)
(* The filesystem is a set of directory paths and a set of file paths,     *)
(* each path a sequence of names relative to the working directory.        *)
(***************************************************************************)
EXTENDS Naturals, Sequences, FiniteSets

VARIABLES
    args,           \* run -> the argparse namespace (line 85)
    pc,             \* run -> position in main()
    exc,            \* run -> the exception that left main(), or "none"
    sample,         \* run -> Context sample id, "" before line 118
    context,        \* run -> TRUE once Context.initialize returned (line 128)
    substitutions,  \* run -> the mapping of line 134, a set of DummyTasks
    built,          \* run -> the real tasks task_class(...) constructed
    tasks,          \* run -> the list of lines 152-157
    chain,          \* run -> index of the next task the runner looks at
    ran,            \* run -> the tasks whose run step was called
    mirrored,       \* run -> the outputs written by lines 160-171
    cleaned,        \* run -> number of tasks clean() was called on
    is_empty,       \* run -> the flag of clean_fold
    stack,          \* run -> the frames of os.walk('proc', topdown=False)
    dirs,           \* the directories of the working directory
    files,          \* the files of the working directory
    rmlog           \* every os.rmdir clean_fold performed: [run, path]

vars == <<args, pc, exc, sample, context, substitutions, built, tasks, chain,
          ran, mirrored, cleaned, is_empty, stack, dirs, files, rmlog>>

-----------------------------------------------------------------------------
(* Bounds of the model.                                                    *)

\* -S entries on one command line
MaxSubs == 2
\* ':' characters in one -S entry
MaxColons == 2
\* formats after -e
MaxExt == 1
\* directories below 'proc' in the trees clean_fold is swept over
MaxDirs == 4

Runs == {1, 2}

-----------------------------------------------------------------------------
(* Strings.                                                                *)

RECURSIVE IndexOf(_, _, _)
\* str.find from position i: the first index >= i of token sep, 0 if none
IndexOf(s, sep, i) ==
    IF i > Len(s) THEN 0
    ELSE IF s[i] = sep THEN i
    ELSE IndexOf(s, sep, i + 1)

RECURSIVE LastIndexOf(_, _, _)
\* str.rfind searching down from position i, 0 if none
LastIndexOf(s, sep, i) ==
    IF i < 1 THEN 0
    ELSE IF s[i] = sep THEN i
    ELSE LastIndexOf(s, sep, i - 1)

\* "name:rest" cut at the first sep only, as str.split(sep, 1) cuts it
SplitFirst(s, sep) ==
    LET i == IndexOf(s, sep, 1)
    IN  IF i = 0 THEN <<s>>
        ELSE <<SubSeq(s, 1, i - 1), SubSeq(s, i + 1, Len(s))>>

RECURSIVE split(_, _)
\* str.split(sep): cuts at every sep
split(s, sep) ==
    LET i == IndexOf(s, sep, 1)
    IN  IF i = 0 THEN <<s>>
        ELSE <<SubSeq(s, 1, i - 1)>> \o split(SubSeq(s, i + 1, Len(s)), sep)

\* str.lower on one format name
lower(tok) ==
    CASE tok = "STDOUT" -> "stdout"
      [] OTHER -> tok

\* [atype.lower() for atype in args.extension]
lower_all(ext) == [i \in 1..Len(ext) |-> lower(ext[i])]

RECURSIVE rstrip(_, _)
\* str.rstrip(sep)
rstrip(s, sep) ==
    IF s # <<>> /\ s[Len(s)] = sep THEN rstrip(SubSeq(s, 1, Len(s) - 1), sep)
    ELSE s

\* posixpath.dirname of a str
dirname(p) ==
    LET i    == LastIndexOf(p, "/", Len(p))
        head == SubSeq(p, 1, i)
    IN  IF head # <<>> /\ \E k \in 1..Len(head) : head[k] # "/"
        THEN rstrip(head, "/")
        ELSE head

Range(s) == {s[i] : i \in 1..Len(s)}

\* Python values of args.output: the default False, or the str after -o
PyFalse == [type |-> "bool", val |-> <<>>]
PyStr(s) == [type |-> "str", val |-> s]
\* truth value of a Python object
truthy(v) == v.type = "str" /\ v.val # <<>>

-----------------------------------------------------------------------------
(* Tasks.                                                                  *)

\* the stages in the order main() assembles them
Stages == <<"PreprocessTask", "ProdigalTask", "HmmerTask", "RunPhigaroTask">>

\* the class attribute task_name of each stage
task_name(cls) ==
    CASE cls = "PreprocessTask" -> <<"preprocess">>
      [] cls = "ProdigalTask" -> <<"prodigal">>
      [] cls = "HmmerTask" -> <<"hmmer">>
      [] cls = "RunPhigaroTask" -> <<"run_phigaro">>

StageNames == {task_name(Stages[i]) : i \in 1..Len(Stages)}

\* the scratch directory of clean_fold
Proc == <<"proc">>

\* the scratch subpath of a sample
sample_dir(smp) == <<"proc", smp>>

\* a task's output_path: derived from the sample id and the task name
output_path(smp, name) == <<"proc", smp, name[1]>>

\* DummyTask(output, task_name)
DummyTask(output, name) ==
    [kind |-> "dummy", cls |-> "DummyTask", task_name |-> name,
     path |-> output, deps |-> <<>>]

\* task_class(*args, **kwargs) for a pipeline stage of the sample
RealTask(cls, smp, deps) ==
    [kind |-> "real", cls |-> cls, task_name |-> task_name(cls),
     path |-> output_path(smp, task_name(cls)), deps |-> deps]

-----------------------------------------------------------------------------
(* parse_substitute_output and create_task.                                *)

Names(res) == {d.task_name : d \in res}

\* substitutions[name]
Lookup(res, name) == CHOOSE d \in res : d.task_name = name

\* res[task_name] = DummyTask(output, task_name)
Store(res, d) == {e \in res : e.task_name # d.task_name} \cup {d}

\* task_name, output = sub.split(":") succeeds only on exactly two parts
Unpacks(parts) == Len(parts) = 2

RECURSIVE parse_from(_, _, _)
\* the loop of lines 26-28 from entry i on, res being the dict so far
parse_from(subs, i, res) ==
    IF i > Len(subs) THEN [exc |-> "none", res |-> res]
    ELSE LET parts == split(subs[i], ":")
         IN  IF ~Unpacks(parts) THEN [exc |-> "ValueError", res |-> {}]
             ELSE parse_from(subs, i + 1,
                             Store(res, DummyTask(parts[2], parts[1])))

\* a resolver that skips the entries it cannot unpack
parse_lenient(subs) ==
    parse_from(SelectSeq(subs, LAMBDA e : Unpacks(split(e, ":"))), 1, {})

parse_substitute_output(subs) == parse_from(subs, 1, {})

\* a factory that ignores the mapping
create_task_real(subst, task) == task

create_task(subst, task) ==
    IF task.task_name \in Names(subst) THEN Lookup(subst, task.task_name)
    ELSE task

-----------------------------------------------------------------------------
(* The command lines.                                                      *)

RECURSIVE Entry(_, _)
\* the -S entry "name" followed by k times ":f"
Entry(name, k) == IF k = 0 THEN <<name>> ELSE Entry(name, k - 1) \o <<":", "f">>

\* names after -S: the four stages and a name no stage has
SubNames == {"preprocess", "prodigal", "hmmer", "run_phigaro", "other"}

Entries == {Entry(n, k) : n \in SubNames, k \in 0..MaxColons}

SubLists == UNION {[1..n -> Entries] : n \in 0..MaxSubs}

ExtNames == {"html", "tsv", "stdout", "STDOUT"}

ExtLists == UNION {[1..n -> ExtNames] : n \in 1..MaxExt}

Outputs == {PyFalse, PyStr(<<"out">>), PyStr(<<"d", "/", "out">>)}

ArgSpace ==
    [extension : ExtLists, output : Outputs, no_cleanup : BOOLEAN,
     substitute_output : SubLists]

\* the command lines of two well-formed runs sharing a working directory
ConcArgSpace ==
    [extension : {<<"tsv">>}, output : {PyStr(<<"out">>)},
     no_cleanup : BOOLEAN,
     substitute_output : {<<>>, <<Entry("prodigal", 1)>>}]

NoArgs ==
    [extension |-> <<"html">>, output |-> PyFalse, no_cleanup |-> FALSE,
     substitute_output |-> <<>>]

\* uuid.uuid4().hex of a run, and '{}-{}'.format(sample_name(filename), uuid)
uuid4(r) == IF r = 1 THEN "u1" ELSE "u2"
format_sample(u) == IF u = "u1" THEN "x-u1" ELSE "x-u2"

Idle ==
    /\ exc = [r \in Runs |-> "none"]
    /\ sample = [r \in Runs |-> ""]
    /\ context = [r \in Runs |-> FALSE]
    /\ substitutions = [r \in Runs |-> {}]
    /\ built = [r \in Runs |-> <<>>]
    /\ tasks = [r \in Runs |-> <<>>]
    /\ chain = [r \in Runs |-> 0]
    /\ ran = [r \in Runs |-> {}]
    /\ mirrored = [r \in Runs |-> {}]
    /\ cleaned = [r \in Runs |-> 0]
    /\ is_empty = [r \in Runs |-> TRUE]
    /\ stack = [r \in Runs |-> <<>>]
    /\ rmlog = {}

\* one run in a fresh working directory
Init ==
    /\ \E a \in ArgSpace : args = [r \in Runs |-> IF r = 1 THEN a ELSE NoArgs]
    /\ pc = [r \in Runs |-> IF r = 1 THEN "start" ELSE "off"]
    /\ dirs = {}
    /\ files = {}
    /\ Idle

\* two runs started in the same fresh working directory
ConcInit ==
    /\ args \in [Runs -> ConcArgSpace]
    /\ pc = [r \in Runs |-> "start"]
    /\ dirs = {}
    /\ files = {}
    /\ Idle

-----------------------------------------------------------------------------
(* main(), one action per step.                                            *)

Raise(r, e) ==
    /\ pc' = [pc EXCEPT ![r] = "raised"]
    /\ exc' = [exc EXCEPT ![r] = e]

Goto(r, l) ==
    /\ pc' = [pc EXCEPT ![r] = l]
    /\ UNCHANGED exc

\* 'html' in args.extension, and the like
Requested(r, fmt) == fmt \in Range(args[r].extension)

\* lines 92-95: exit(1) when the config file does not exist
CheckConfig(r) ==
    /\ pc[r] = "start"
    /\ \E config_exists \in BOOLEAN :
          IF ~config_exists THEN Raise(r, "exit(1): no config")
          ELSE Goto(r, "check_output")
    /\ UNCHANGED <<args, sample, context, substitutions, built, tasks, chain,
                   ran, mirrored, cleaned, is_empty, stack, dirs, files, rmlog>>

\* (not args.output) and (args.extension != ['stdout'])
output_missing(output, extension) ==
    ~truthy(output) /\ extension # <<"stdout">>

\* lines 97-100: lower-case the formats, exit(1) when -o is required
CheckOutput(r) ==
    /\ pc[r] = "check_output"
    /\ LET ext == lower_all(args[r].extension)
       IN  /\ args' = [args EXCEPT ![r].extension = ext]
           /\ IF output_missing(args[r].output, ext)
              THEN Raise(r, "exit(1): no output")
              ELSE Goto(r, "configure")
    /\ UNCHANGED <<sample, context, substitutions, built, tasks, chain,
                   ran, mirrored, cleaned, is_empty, stack, dirs, files, rmlog>>

\* os.makedirs(fold): the directory and its parents
makedirs(path) == {SubSeq(path, 1, k) : k \in 1..Len(path)}

\* a path of the working directory from its str: the parts between "/"
fs_path(str) == SelectSeq(str, LAMBDA tok : tok # "/")

\* config['phigaro']['output'] is not None
output_is_not_none(output) == output.type # "NoneType"

\* lines 102-126: the config, the sample id, the folder of the output
Configure(r) ==
    /\ pc[r] = "configure"
    /\ sample' = [sample EXCEPT ![r] = format_sample(uuid4(r))]
    /\ IF output_is_not_none(args[r].output)
       THEN IF args[r].output.type # "str"
            THEN /\ Raise(r, "TypeError")
                 /\ UNCHANGED dirs
            ELSE LET fold == dirname(args[r].output.val)
                 IN  /\ Goto(r, "context")
                     /\ dirs' = IF fold # <<>> /\ fs_path(fold) \notin dirs
                                THEN dirs \cup makedirs(fs_path(fold))
                                ELSE dirs
       ELSE /\ Goto(r, "context")
            /\ UNCHANGED dirs
    /\ UNCHANGED <<args, context, substitutions, built, tasks, chain,
                   ran, mirrored, cleaned, is_empty, stack, files, rmlog>>

\* lines 128-132: Context.initialize
InitContext(r) ==
    /\ pc[r] = "context"
    /\ context' = [context EXCEPT ![r] = TRUE]
    /\ Goto(r, "parse")
    /\ UNCHANGED <<args, sample, substitutions, built, tasks, chain,
                   ran, mirrored, cleaned, is_empty, stack, dirs, files, rmlog>>

\* line 134
ParseSubs(r) ==
    /\ pc[r] = "parse"
    /\ LET got == parse_substitute_output(args[r].substitute_output)
       IN  IF got.exc # "none"
           THEN /\ Raise(r, got.exc)
                /\ UNCHANGED substitutions
           ELSE /\ Goto(r, "create")
                /\ substitutions' = [substitutions EXCEPT ![r] = got.res]
    /\ UNCHANGED <<args, sample, context, built, tasks, chain,
                   ran, mirrored, cleaned, is_empty, stack, dirs, files, rmlog>>

\* a stage's constructor prepares the scratch subpath of the sample
prepare_dir(smp) == makedirs(sample_dir(smp))

\* the dependencies main() hands to each stage, given the tasks made so far
stage_deps(i, made) ==
    CASE i = 1 -> <<>>
      [] i = 2 -> <<made[1]>>
      [] i = 3 -> <<made[2]>>
      [] i = 4 -> <<made[2], made[3]>>

RECURSIVE assemble(_, _, _, _)
\* lines 136-150 from stage i on: [tasks, built] after the create_task calls
assemble(subst, smp, i, acc) ==
    IF i > Len(Stages) THEN acc
    ELSE LET real == RealTask(Stages[i], smp, stage_deps(i, acc.tasks))
         IN  assemble(subst, smp, i + 1,
                      [tasks |-> Append(acc.tasks, create_task(subst, real)),
                       built |-> Append(acc.built, real)])

\* lines 136-157: build the chain; constructing a stage prepares its
\* scratch subpath
CreateTasks(r) ==
    /\ pc[r] = "create"
    /\ LET made == assemble(substitutions[r], sample[r], 1,
                            [tasks |-> <<>>, built |-> <<>>])
       IN  /\ tasks' = [tasks EXCEPT ![r] = made.tasks]
           /\ built' = [built EXCEPT ![r] = made.built]
    /\ dirs' = dirs \cup prepare_dir(sample[r])
    /\ chain' = [chain EXCEPT ![r] = 1]
    /\ Goto(r, "chain")
    /\ UNCHANGED <<args, sample, context, substitutions,
                   ran, mirrored, cleaned, is_empty, stack, files, rmlog>>

\* what main() does with an error run_tasks_chain raises: a handler that
\* goes on to the cleanup
on_chain_error_cleanup == "cleanup"

\* line 158 sits in no try block: the error leaves main()
on_chain_error == "raised"

\* run_tasks_chain, one task per step: skip a task whose output exists,
\* else call its run step, which writes the artifact or fails
RunTask(r) ==
    /\ pc[r] = "chain"
    /\ LET t    == tasks[r][chain[r]]
           last == chain[r] = Len(tasks[r])
           next == IF last THEN Goto(r, "mirror") ELSE UNCHANGED <<pc, exc>>
       IN  IF t.kind = "dummy" \/ t.path \in files
           THEN /\ next
                /\ chain' = [chain EXCEPT ![r] = @ + 1]
                /\ UNCHANGED <<ran, files>>
           ELSE /\ ran' = [ran EXCEPT ![r] = @ \cup {t}]
                /\ \E ok \in BOOLEAN :
                      IF ok /\ sample_dir(sample[r]) \in dirs
                      THEN /\ files' = files \cup {t.path}
                           /\ chain' = [chain EXCEPT ![r] = @ + 1]
                           /\ next
                      ELSE /\ pc' = [pc EXCEPT ![r] = on_chain_error]
                           /\ exc' = [exc EXCEPT ![r] = "ExecutionError"]
                           /\ UNCHANGED <<files, chain>>
    /\ UNCHANGED <<args, sample, context, substitutions, built, tasks,
                   mirrored, cleaned, is_empty, stack, dirs, rmlog>>

\* lines 160-173: copy the result to the .tsv file and to stdout
Mirror(r) ==
    /\ pc[r] = "mirror"
    /\ mirrored' = [mirrored EXCEPT ![r] =
           IF Requested(r, "tsv") \/ Requested(r, "stdout")
           THEN {"tsv", "stdout"} \cap Range(args[r].extension)
           ELSE {}]
    /\ IF ~args[r].no_cleanup THEN Goto(r, "cleanup") ELSE Goto(r, "done")
    /\ UNCHANGED <<args, sample, context, substitutions, built, tasks, chain,
                   ran, cleaned, is_empty, stack, dirs, files, rmlog>>

\* t.clean(): a real task removes its artifact, a DummyTask nothing
clean(t, fs) == IF t.kind = "real" THEN fs \ {t.path} ELSE fs

\* lines 174-175, one task per step
CleanTask(r) ==
    /\ pc[r] = "cleanup"
    /\ LET t == tasks[r][cleaned[r] + 1]
       IN  files' = clean(t, files)
    /\ cleaned' = [cleaned EXCEPT ![r] = @ + 1]
    /\ IF cleaned[r] + 1 = Len(tasks[r]) THEN Goto(r, "clean_fold")
       ELSE UNCHANGED <<pc, exc>>
    /\ UNCHANGED <<args, sample, context, substitutions, built, tasks, chain,
                   ran, mirrored, is_empty, stack, dirs, rmlog>>

-----------------------------------------------------------------------------
(* clean_fold, one step of os.walk('proc', topdown=False) per action.      *)

Front(p) == SubSeq(p, 1, Len(p) - 1)

\* the directories directly in directory d
Children(d) == {c \in dirs : Len(c) = Len(d) + 1 /\ Front(c) = d}

\* whether directory d holds a file
HasFiles(d) == \E f \in files : Front(f) = d

\* os.rmdir(d) succeeds on an existing, empty directory
CanRmdir(d) == d \in dirs /\ Children(d) = {} /\ ~HasFiles(d)

\* os.walk lists a directory before it descends into it
ListDir(d) ==
    [root |-> d, todo |-> Children(d), subdirs |-> Children(d),
     hasfiles |-> HasFiles(d)]

Top(st) == st[Len(st)]
Pop(st) == SubSeq(st, 1, Len(st) - 1)

\* line 44 and the first step of the walk; a 'proc' that cannot be listed
\* yields nothing
FoldStart(r) ==
    /\ pc[r] = "clean_fold"
    /\ is_empty' = [is_empty EXCEPT ![r] = TRUE]
    /\ stack' = [stack EXCEPT ![r] =
                    IF Proc \in dirs THEN <<ListDir(Proc)>> ELSE <<>>]
    /\ Goto(r, "walk")
    /\ UNCHANGED <<args, sample, context, substitutions, built, tasks, chain,
                   ran, mirrored, cleaned, dirs, files, rmlog>>

\* the walk descends into one more subdirectory, in any order
WalkDescend(r) ==
    /\ pc[r] = "walk"
    /\ stack[r] # <<>>
    /\ \E c \in Top(stack[r]).todo :
          LET rest == [Top(stack[r]) EXCEPT !.todo = @ \ {c}]
              here == Append(Pop(stack[r]), rest)
          IN  stack' = [stack EXCEPT ![r] =
                           IF c \in dirs THEN Append(here, ListDir(c))
                           ELSE here]
    /\ UNCHANGED <<args, pc, exc, sample, context, substitutions, built, tasks,
                   chain, ran, mirrored, cleaned, is_empty, dirs, files, rmlog>>

\* a flag that is never cleared to a usable state
loop_flag_stuck(flag, hasfiles) == FALSE

\* lines 46-48: a file in the directory clears the flag
loop_flag(flag, hasfiles) == flag /\ ~hasfiles

\* lines 45-51: the walk yields a directory whose subdirectories are done
WalkYield(r) ==
    /\ pc[r] = "walk"
    /\ stack[r] # <<>>
    /\ Top(stack[r]).todo = {}
    /\ LET fr   == Top(stack[r])
           flag == loop_flag(is_empty[r], fr.hasfiles)
           ok   == {c \in fr.subdirs : CanRmdir(c)}
       IN  /\ is_empty' = [is_empty EXCEPT ![r] = flag]
           /\ stack' = [stack EXCEPT ![r] = Pop(@)]
           /\ IF ~flag
              THEN UNCHANGED <<pc, exc, dirs, rmlog>>
              ELSE IF ok = fr.subdirs
              THEN /\ dirs' = dirs \ ok
                   /\ rmlog' = rmlog \cup {[run |-> r, path |-> c] : c \in ok}
                   /\ UNCHANGED <<pc, exc>>
              ELSE \E gone \in SUBSET ok :
                      /\ dirs' = dirs \ gone
                      /\ rmlog' = rmlog \cup
                                    {[run |-> r, path |-> c] : c \in gone}
                      /\ Raise(r, "OSError")
    /\ UNCHANGED <<args, sample, context, substitutions, built, tasks, chain,
                   ran, mirrored, cleaned, files>>

\* lines 52-53
FoldFinish(r) ==
    /\ pc[r] = "walk"
    /\ stack[r] = <<>>
    /\ IF ~is_empty[r]
       THEN /\ Goto(r, "done")
            /\ UNCHANGED <<dirs, rmlog>>
       ELSE IF CanRmdir(Proc)
       THEN /\ dirs' = dirs \ {Proc}
            /\ rmlog' = rmlog \cup {[run |-> r, path |-> Proc]}
            /\ Goto(r, "done")
       ELSE /\ Raise(r, "OSError")
            /\ UNCHANGED <<dirs, rmlog>>
    /\ UNCHANGED <<args, sample, context, substitutions, built, tasks, chain,
                   ran, mirrored, cleaned, is_empty, stack, files>>

-----------------------------------------------------------------------------
(* The specifications.                                                     *)

DirNames == {"a", "b"}

RECURSIVE TreesUpTo(_)
\* the directory trees rooted at 'proc' with at most n directories below it
TreesUpTo(n) ==
    IF n = 0 THEN {{Proc}}
    ELSE LET prev == TreesUpTo(n - 1)
         IN  prev \cup
             UNION {{t \cup {Append(p, nm)} : p \in t, nm \in DirNames} :
                    t \in prev}

\* clean_fold called on any tree under 'proc', files left anywhere in it
FoldInit ==
    /\ \E t \in TreesUpTo(MaxDirs) :
          /\ dirs = t
          /\ files \in SUBSET {Append(d, "f") : d \in t}
    /\ args = [r \in Runs |-> NoArgs]
    /\ pc = [r \in Runs |-> IF r = 1 THEN "clean_fold" ELSE "off"]
    /\ Idle

FoldNext ==
    \E r \in Runs :
        \/ FoldStart(r)
        \/ WalkDescend(r)
        \/ WalkYield(r)
        \/ FoldFinish(r)

Next ==
    \E r \in Runs :
        \/ CheckConfig(r)
        \/ CheckOutput(r)
        \/ Configure(r)
        \/ InitContext(r)
        \/ ParseSubs(r)
        \/ CreateTasks(r)
        \/ RunTask(r)
        \/ Mirror(r)
        \/ CleanTask(r)
        \/ FoldStart(r)
        \/ WalkDescend(r)
        \/ WalkYield(r)
        \/ FoldFinish(r)

Spec == Init /\ [][Next]_vars

ConcSpec == ConcInit /\ [][Next]_vars

FoldSpec == FoldInit /\ [][FoldNext]_vars

-----------------------------------------------------------------------------
(* The properties.                                                         *)

\* the -S entries of run r
Subs(r) == args[r].substitute_output

LacksColon(e) == IndexOf(e, ":", 1) = 0

\* line 134 has returned or raised
Parsed(r) == context[r] /\ pc[r] # "parse"

\* the runner has been entered
ChainReached(r) == chain[r] >= 1

\* the runner has returned the final output
ChainCompleted(r) == tasks[r] # <<>> /\ chain[r] > Len(tasks[r])

\* the stages main() constructs with stage i as a dependency (lines 140-150)
Downstream(i) ==
    CASE i = 1 -> {2}
      [] i = 2 -> {3, 4}
      [] i = 3 -> {4}
      [] i = 4 -> {}

\* C1: once main() has assembled the chain, a stage whose task_name is in
\* the substitution mapping is represented in the task list by the mapping's
\* DummyTask, every stage that depends on it was constructed with that
\* DummyTask as its dependency and the stage's own run step is never called;
\* a stage whose task_name is not in the mapping is represented by the real
\* task main() constructed for it.
C1_SubstitutionInjected ==
    \A r \in Runs :
        tasks[r] # <<>> =>
            \A i \in 1..Len(Stages) :
                LET name == task_name(Stages[i])
                IN  IF name \in Names(substitutions[r])
                    THEN /\ tasks[r][i] = Lookup(substitutions[r], name)
                         /\ tasks[r][i].kind = "dummy"
                         /\ \A j \in Downstream(i) :
                                tasks[r][i] \in Range(built[r][j].deps)
                         /\ built[r][i] \notin ran[r]
                         /\ \A t \in ran[r] : t.task_name # name
                    ELSE /\ tasks[r][i] = built[r][i]
                         /\ tasks[r][i].kind = "real"
                         /\ tasks[r][i].cls = Stages[i]

\* a run with prodigal substituted has finished, the other stages having run
C1_Witness ==
    \E r \in Runs :
        /\ pc[r] = "done"
        /\ Names(substitutions[r]) = {<<"prodigal">>}
        /\ Cardinality(ran[r]) = 3

\* C2: when some -S entry has no ':', parse_substitute_output raises, the
\* error leaves main() (non-zero exit), and at that point no pipeline task
\* has been constructed, put in the chain or executed, and no artifact or
\* scratch directory has been written.
C2_MalformedEntryFailsCleanly ==
    \A r \in Runs :
        (Parsed(r) /\ \E i \in 1..Len(Subs(r)) : LacksColon(Subs(r)[i])) =>
            /\ pc[r] = "raised"
            /\ exc[r] = "ValueError"
            /\ built[r] = <<>>
            /\ tasks[r] = <<>>
            /\ ran[r] = {}
            /\ substitutions[r] = {}
            /\ files = {}
            /\ Proc \notin dirs

\* a well-formed entry followed by one without ':' has failed the run
C2_Witness ==
    \E r \in Runs :
        /\ exc[r] = "ValueError"
        /\ Subs(r) = <<Entry("prodigal", 1), Entry("hmmer", 0)>>

\* entry i is the last entry of the list for its name
LastForName(subs, i) ==
    \A j \in (i + 1)..Len(subs) :
        SplitFirst(subs[j], ":")[1] # SplitFirst(subs[i], ":")[1]

\* C3: when every -S entry holds a ':', parsing succeeds and the mapping
\* sends the text before the first ':' of an entry to a DummyTask whose path
\* is all of the text after that first ':'.
C3_SplitsOnFirstColon ==
    \A r \in Runs :
        (Parsed(r) /\ \A i \in 1..Len(Subs(r)) : ~LacksColon(Subs(r)[i])) =>
            /\ exc[r] # "ValueError"
            /\ \A i \in 1..Len(Subs(r)) :
                   LastForName(Subs(r), i) =>
                       LET parts == SplitFirst(Subs(r)[i], ":")
                       IN  DummyTask(parts[2], parts[1]) \in substitutions[r]

\* C4: a run with a -S entry whose task_name is no stage's task_name never
\* enters the runner.
C4_UnknownNameRejected ==
    \A r \in Runs :
        (\E i \in 1..Len(Subs(r)) :
             SplitFirst(Subs(r)[i], ":")[1] \notin StageNames) =>
            ~ChainReached(r)

\* C5: a run whose only format is stdout, given no -o and well-formed -S
\* entries, with its config file in place, does not fail before the runner
\* is entered.
C5_StdoutOnlyNeedsNoOutput ==
    \A r \in Runs :
        (/\ lower_all(args[r].extension) = <<"stdout">>
         /\ args[r].output = PyFalse
         /\ parse_substitute_output(Subs(r)).exc = "none"
         /\ pc[r] = "raised"
         /\ exc[r] # "exit(1): no config") =>
            ChainReached(r)

\* C6: when clean_fold has ended, 'proc' is gone exactly if the tree under
\* 'proc' held no file.
C6_RemovedIffNoFiles ==
    \A r \in Runs :
        pc[r] \in {"done", "raised"} =>
            ((Proc \notin dirs) <=> (files = {}))

\* clean_fold has removed a file-free tree of three levels
C6_Witness ==
    /\ pc[1] = "done"
    /\ dirs = {}
    /\ \E e \in rmlog : Len(e.path) = 3

\* C7: while the tree under 'proc' holds a file, clean_fold removes no
\* directory.
C7_LeftoverPreservesAll == files # {} => rmlog = {}

\* C8: once a stage has failed in the runner, the error has left main():
\* nothing is mirrored, clean() is called on no task, clean_fold does not
\* start and no directory is removed.
C8_FailedChainStopsMain ==
    \A r \in Runs :
        exc[r] = "ExecutionError" =>
            /\ pc[r] = "raised"
            /\ mirrored[r] = {}
            /\ cleaned[r] = 0
            /\ stack[r] = <<>>
            /\ rmlog = {}
            /\ \A t \in ran[r] \ {tasks[r][chain[r]]} : t.path \in files

\* the second stage failed in a run that asked for tsv and for cleanup
C8_Witness ==
    \E r \in Runs :
        /\ exc[r] = "ExecutionError"
        /\ chain[r] = 2
        /\ ~args[r].no_cleanup
        /\ Requested(r, "tsv")
        /\ files # {}

\* C9: a run whose chain completed does not end with an error.
C9_CleanupFailureSwallowed ==
    \A r \in Runs : ChainCompleted(r) => pc[r] # "raised"

\* C10: clean_fold of one run removes no directory under another run's
\* sample, and the scratch subpath of a run is there while its chain runs.
C10_RunsDoNotInterfere ==
    /\ \A e \in rmlog : Len(e.path) >= 2 => e.path[2] = sample[e.run]
    /\ \A r \in Runs : pc[r] = "chain" => sample_dir(sample[r]) \in dirs

=============================================================================
